---------------------------- MODULE Spec2Model ----------------------------
(***************************************************************************)
(* Personal Habit Tracker: the weather mood scoring engine                 *)
(* (weather_service.py), the SQLite store of daily logs and weather mood   *)
(* patterns (database.py) and the session flow that ties them together     *)
(* (Python main.py).                                                       *)
(*                                                                         *)
(* Units.  Temperatures and wind speeds are held in tenths (22.0 C is 220, *)
(* 24.9 C is 249, 3 m/s is 30); humidity, cloud cover and pressure are     *)
(* whole numbers; scores and score deltas are held in tenths (5.0 is 50,   *)
(* +1.5 is 15).  An optional dictionary key is a set: {} when the key is   *)
(* absent, {v} when it is present with value v.                            *)
(***************************************************************************)
EXTENDS Integers, Sequences, FiniteSets, TLC

VARIABLES
    weather_data,   \* the observation handed to the scoring engine
    result,         \* what calculate_weather_mood_score returned for it
    daily_logs,     \* table daily_logs: its rows in rowid order
    patterns,       \* table weather_mood_patterns: its rows, row i has id i
    calls,          \* history: the update_weather_pattern calls that returned
    last,           \* history: the last save operation and what it did
    ops,            \* number of store operations run so far
    pc,             \* per connection: where its update_weather_pattern stands
    args,           \* per connection: the arguments of its call
    existing,       \* per connection: what its SELECT fetched
    pending,        \* per connection: its uncommitted write
    user_patterns,  \* the pattern list handed to get_weather_mood_prediction
    prediction,     \* what get_weather_mood_prediction returned
    today,          \* the current date, as datetime.now() formats it
    data_file,      \* data/daily_log.csv: {} when missing, else {its lines}
    csv_saved,      \* history: the entries handed to the CSV save_daily_log
    csv_loaded      \* what the CSV load_all_logs returned last: {} or {list}

scoreVars == <<weather_data, result>>

storeVars == <<daily_logs, patterns, calls, last, ops>>

connVars == <<pc, args, existing, pending>>

predictVars == <<user_patterns, prediction>>

sessionVars == <<today>>

csvVars == <<data_file, csv_saved, csv_loaded>>

vars == <<weather_data, result, daily_logs, patterns, calls, last, ops,
          pc, args, existing, pending,
          user_patterns, prediction, today, data_file, csv_saved, csv_loaded>>

(***************************************************************************)
(* Optional values: dict.get(key) and dict.get(key, default).              *)
(***************************************************************************)
Val(opt) == CHOOSE v \in opt : TRUE

GetOr(opt, default) == IF opt = {} THEN default ELSE Val(opt)

(***************************************************************************)
(* str.lower() on the condition labels the model uses.                     *)
(***************************************************************************)
Lower(s) ==
    CASE s = "Clear"        -> "clear"
      [] s = "Sunny"        -> "sunny"
      [] s = "Clouds"       -> "clouds"
      [] s = "Rain"         -> "rain"
      [] s = "Drizzle"      -> "drizzle"
      [] s = "Thunderstorm" -> "thunderstorm"
      [] s = "Snow"         -> "snow"
      [] s = "Mist"         -> "mist"
      [] s = "Fog"          -> "fog"
      [] s = "Haze"         -> "haze"
      [] OTHER              -> s

(***************************************************************************)
(* A rule's outcome: the delta it adds to the score and the factors it     *)
(* appends (none or one).  A factor carries its rule group, its text and   *)
(* the numeric value the f-string embeds ({} when the text embeds none).   *)
(***************************************************************************)
Fired(delta, group, label, value) ==
    [delta |-> delta,
     factors |-> <<[group |-> group, label |-> label, value |-> value]>>]

NoRule == [delta |-> 0, factors |-> <<>>]

\* the temperature rule with 18.0 left out of the comfortable band
TemperatureRuleLateComfort(temp) ==
    IF 180 < temp /\ temp <= 250
    THEN Fired(15, "temperature", "Comfortable temperature", {temp})
    ELSE IF (150 <= temp /\ temp < 180) \/ (250 < temp /\ temp <= 280)
    THEN Fired(5, "temperature", "Pleasant temperature", {temp})
    ELSE IF temp < 50 \/ temp > 350
    THEN Fired(-20, "temperature", "Extreme temperature", {temp})
    ELSE IF temp < 150 \/ temp > 280
    THEN Fired(-10, "temperature", "Uncomfortable temperature", {temp})
    ELSE NoRule

\* weather_service.py 41-54
TemperatureRule(temp) ==
    IF 180 <= temp /\ temp <= 250
    THEN Fired(15, "temperature", "Comfortable temperature", {temp})
    ELSE IF (150 <= temp /\ temp < 180) \/ (250 < temp /\ temp <= 280)
    THEN Fired(5, "temperature", "Pleasant temperature", {temp})
    ELSE IF temp < 50 \/ temp > 350
    THEN Fired(-20, "temperature", "Extreme temperature", {temp})
    ELSE IF temp < 150 \/ temp > 280
    THEN Fired(-10, "temperature", "Uncomfortable temperature", {temp})
    ELSE NoRule

\* weather_service.py 56-66
HumidityRule(humidity) ==
    IF 40 <= humidity /\ humidity <= 60
    THEN Fired(5, "humidity", "Comfortable humidity", {humidity})
    ELSE IF humidity > 80
    THEN Fired(-15, "humidity", "High humidity", {humidity})
    ELSE IF humidity < 30
    THEN Fired(-5, "humidity", "Low humidity", {humidity})
    ELSE NoRule

\* weather_service.py 68-92; clouds is the optional weather_data['clouds']['all']
ConditionRule(label, clouds) ==
    LET condition == Lower(label)
        cloud_cover == GetOr(clouds, 0)
    IN  IF condition \in {"clear", "sunny"}
        THEN Fired(20, "condition", "Clear/sunny weather", {})
        ELSE IF condition \in {"clouds"}
        THEN IF cloud_cover < 30
             THEN Fired(10, "condition", "Partly cloudy", {})
             ELSE IF cloud_cover > 80
             THEN Fired(-10, "condition", "Overcast", {})
             ELSE NoRule
        ELSE IF condition \in {"rain", "drizzle"}
        THEN Fired(-15, "condition", "Rainy weather", {})
        ELSE IF condition \in {"thunderstorm"}
        THEN Fired(-20, "condition", "Thunderstorm", {})
        ELSE IF condition \in {"snow"}
        THEN Fired(-10, "condition", "Snowy weather", {})
        ELSE IF condition \in {"mist", "fog"}
        THEN Fired(-5, "condition", "Misty/foggy", {})
        ELSE NoRule

\* weather_service.py 94-101; wind is the optional weather_data['wind']['speed']
WindRule(wind) ==
    LET wind_speed == GetOr(wind, 0)
    IN  IF wind_speed > 100
        THEN Fired(-10, "wind", "Strong winds", {wind_speed})
        ELSE IF 20 <= wind_speed /\ wind_speed <= 50
        THEN Fired(3, "wind", "Gentle breeze", {})
        ELSE NoRule

\* the pressure rule with +0.8 for high pressure
PressureRuleStrong(pressure) ==
    IF pressure # {} /\ Val(pressure) # 0
    THEN IF Val(pressure) < 1000
         THEN Fired(-8, "pressure", "Low air pressure", pressure)
         ELSE IF Val(pressure) > 1020
         THEN Fired(8, "pressure", "High air pressure", pressure)
         ELSE NoRule
    ELSE NoRule

\* weather_service.py 103-111; `if pressure:` is false for an absent key and for 0
PressureRule(pressure) ==
    IF pressure # {} /\ Val(pressure) # 0
    THEN IF Val(pressure) < 1000
         THEN Fired(-8, "pressure", "Low air pressure", pressure)
         ELSE IF Val(pressure) > 1020
         THEN Fired(5, "pressure", "High air pressure", pressure)
         ELSE NoRule
    ELSE NoRule

Min(a, b) == IF a <= b THEN a ELSE b

Max(a, b) == IF a >= b THEN a ELSE b

\* the clamp without its lower bound
ClampUpperOnly(score) == Min(100, score)

\* weather_service.py 114: max(0, min(10, score)), in tenths
Clamp(score) == Max(0, Min(100, score))

(***************************************************************************)
(* round(x, 1) of the rational num/den, as a number of tenths: the nearest *)
(* tenth, a tie going to the even one.                                     *)
(***************************************************************************)
Round1(num, den) ==
    LET q == (10 * num) \div den
        r == (10 * num) - q * den
    IN  IF 2 * r > den THEN q + 1
        ELSE IF 2 * r < den THEN q
        ELSE IF q % 2 = 0 THEN q ELSE q + 1

\* the rules with humidity evaluated before temperature
RuleOutcomesHumidityFirst(wd) ==
    <<HumidityRule(Val(wd.humidity)),
      TemperatureRule(Val(wd.temp)),
      ConditionRule(Val(wd.condition), wd.clouds),
      WindRule(wd.wind),
      PressureRule(wd.pressure)>>

(***************************************************************************)
(* The rules in the order the function evaluates them.                     *)
(***************************************************************************)
RuleOutcomes(wd) ==
    <<TemperatureRule(Val(wd.temp)),
      HumidityRule(Val(wd.humidity)),
      ConditionRule(Val(wd.condition), wd.clouds),
      WindRule(wd.wind),
      PressureRule(wd.pressure)>>

RECURSIVE SumDeltas(_)
SumDeltas(outs) ==
    IF outs = <<>> THEN 0 ELSE Head(outs).delta + SumDeltas(Tail(outs))

RECURSIVE AllFactors(_)
AllFactors(outs) ==
    IF outs = <<>> THEN <<>> ELSE Head(outs).factors \o AllFactors(Tail(outs))

(***************************************************************************)
(* calculate_weather_mood_score.  A falsy weather_data (None, {}) returns  *)
(* the neutral 5.0 with no factors; a missing required key raises          *)
(* KeyError; otherwise the baseline 5.0 plus the rule deltas, clamped and  *)
(* rounded.  raw is the local `score` just before the clamp.               *)
(***************************************************************************)
CalculateWeatherMoodScore(wd) ==
    IF ~wd.given
    THEN [status |-> "ok", score |-> 50, raw |-> 50, factors |-> <<>>]
    ELSE IF wd.temp = {} \/ wd.humidity = {} \/ wd.condition = {}
    THEN [status |-> "KeyError", score |-> 0, raw |-> 0, factors |-> <<>>]
    ELSE LET outs == RuleOutcomes(wd)
             raw == 50 + SumDeltas(outs)
         IN  [status |-> "ok",
              score |-> Round1(Clamp(raw), 10),
              raw |-> raw,
              factors |-> AllFactors(outs)]

(***************************************************************************)
(* The observations the scoring engine is run on: every combination of the *)
(* boundary values of each rule, the falsy observation and observations    *)
(* with a required or an optional key missing.                             *)
(***************************************************************************)
Temps == {30, 49, 50, 149, 150, 179, 180, 200, 250, 251, 280, 281, 350, 351}

Humidities == {29, 30, 40, 50, 60, 61, 80, 81}

OtherConditions == {"Clear", "sunny", "Rain", "Thunderstorm", "snow", "Fog", "Haze"}

CloudCovers == {{}, {0}, {29}, {30}, {80}, {81}}

WindSpeeds == {{}, {19}, {20}, {30}, {50}, {51}, {100}, {101}}

Pressures == {{}, {0}, {999}, {1000}, {1015}, {1020}, {1021}}

Observation(t, h, c, cl, w, p) ==
    [given |-> TRUE, temp |-> t, humidity |-> h, condition |-> c,
     clouds |-> cl, wind |-> w, pressure |-> p]

NoObservation == [given |-> FALSE, temp |-> {}, humidity |-> {}, condition |-> {},
                  clouds |-> {}, wind |-> {}, pressure |-> {}]

\* cloud cover is read for the "Clouds" condition only
ConditionsAndClouds ==
    {<<c, cl>> : c \in OtherConditions, cl \in {{}, {30}}}
    \cup {<<"Clouds", cl>> : cl \in CloudCovers}

FullObservations ==
    {Observation({t}, {h}, {cc[1]}, cc[2], w, p) :
        t \in Temps, h \in Humidities, cc \in ConditionsAndClouds,
        w \in WindSpeeds, p \in Pressures}

PartialObservations ==
    {Observation(t, h, {"Clear"}, {}, {30}, p) :
        t \in {{}, {200}}, h \in {{}, {50}}, p \in {{}, {1015}}}

NoResult == [status |-> "none", score |-> 0, raw |-> 0, factors |-> <<>>]

(***************************************************************************)
(* Rational numbers <<numerator, denominator>> in lowest terms, for the    *)
(* REAL column avg_mood_impact.                                            *)
(***************************************************************************)
Abs(x) == IF x < 0 THEN -x ELSE x

RECURSIVE GCD(_, _)
GCD(a, b) == IF b = 0 THEN a ELSE GCD(b, a % b)

Rat(num, den) ==
    LET g == GCD(Abs(num), den)
    IN  IF num = 0 THEN <<0, 1>> ELSE <<num \div g, den \div g>>

(***************************************************************************)
(* database.py: table daily_logs.  A NULL column is {}.                    *)
(***************************************************************************)
NoWeatherInfo ==
    [temperature |-> {}, humidity |-> {}, condition |-> {}, precipitation |-> {},
     cloud_cover |-> {}, wind_speed |-> {}, air_pressure |-> {}, uv_index |-> {},
     mood_score |-> {}, impact_factors |-> {}]

\* the row save_daily_log inserts: the weather columns take their defaults
LogRow(user_id, log_entry) ==
    [user_id |-> user_id,
     log_date |-> log_entry.LogDate,
     mood_rating |-> log_entry.MoodRating,
     had_exercise |-> log_entry.HadExercise,
     got_enough_sleep |-> log_entry.GotEnoughSleep,
     had_social_interaction |-> log_entry.HadSocialInteraction,
     ate_healthy |-> log_entry.AteHealthy,
     notes |-> log_entry.Notes,
     temperature |-> {},
     humidity |-> {},
     weather_condition |-> {},
     precipitation |-> {0},
     cloud_cover |-> {},
     wind_speed |-> {},
     air_pressure |-> {},
     uv_index |-> {},
     weather_mood_score |-> {},
     weather_impact_factors |-> {}]

\* the row save_daily_log_with_weather inserts for a truthy weather_data
LogRowWithWeather(user_id, log_entry, weather_info) ==
    [LogRow(user_id, log_entry) EXCEPT
        !.temperature = weather_info.temperature,
        !.humidity = weather_info.humidity,
        !.weather_condition = weather_info.condition,
        !.precipitation = {GetOr(weather_info.precipitation, 0)},
        !.cloud_cover = weather_info.cloud_cover,
        !.wind_speed = weather_info.wind_speed,
        !.air_pressure = weather_info.air_pressure,
        !.uv_index = weather_info.uv_index,
        !.weather_mood_score = weather_info.mood_score,
        !.weather_impact_factors = {GetOr(weather_info.impact_factors, <<>>)}]

\* CHECK (mood_rating >= 1 AND mood_rating <= 5)
CheckConstraint(row) == row.mood_rating >= 1 /\ row.mood_rating <= 5

SameLogKey(r, row) == r.user_id = row.user_id /\ r.log_date = row.log_date

\* INSERT without the conflict clause
InsertKeepingOld(logs, row) == Append(logs, row)

\* INSERT OR REPLACE under UNIQUE(user_id, log_date): the conflicting row is
\* deleted and the new row gets a fresh rowid
InsertOrReplace(logs, row) ==
    Append(SelectSeq(logs, LAMBDA r : ~SameLogKey(r, row)), row)

HasLog(logs, row) == \E i \in 1..Len(logs) : SameLogKey(logs[i], row)

\* one save: commit and True, or rollback and False when the CHECK fails
SaveRow(logs, row) ==
    IF CheckConstraint(row)
    THEN [ok |-> TRUE, logs |-> InsertOrReplace(logs, row),
          replaced |-> HasLog(logs, row)]
    ELSE [ok |-> FALSE, logs |-> logs, replaced |-> FALSE]

\* HabitDatabase.save_daily_log
DbSaveDailyLog(logs, log_entry, user_id) ==
    SaveRow(logs, LogRow(user_id, log_entry))

\* HabitDatabase.save_daily_log_with_weather; weather is {} for None or an
\* empty dict and {weather_info} otherwise
DbSaveDailyLogWithWeather(logs, log_entry, weather, user_id) ==
    IF weather # {}
    THEN SaveRow(logs, LogRowWithWeather(user_id, log_entry, Val(weather)))
    ELSE DbSaveDailyLog(logs, log_entry, user_id)

(***************************************************************************)
(* database.py: table weather_mood_patterns and update_weather_pattern.    *)
(***************************************************************************)
\* the temperature range with the quotient truncated towards zero
TempRangeTruncating(temp) ==
    LET q == IF temp < 0 THEN -((-temp) \div 50) ELSE temp \div 50
    IN  ToString(q * 5) \o "-" \o ToString(q * 5 + 5)

\* f"{int(temp//5)*5}-{int(temp//5)*5+5}", temp in tenths
TempRange(temp) ==
    ToString((temp \div 50) * 5) \o "-" \o ToString((temp \div 50) * 5 + 5)

\* f"{int(humidity//10)*10}-{int(humidity//10)*10+10}"
HumidityRange(humidity) ==
    ToString((humidity \div 10) * 10) \o "-" \o ToString((humidity \div 10) * 10 + 10)

\* the bucket key with the condition label folded to lower case
PatternKeyFoldingCase(user_id, weather_info) ==
    [user_id |-> user_id,
     temperature_range |-> TempRange(GetOr(weather_info.temperature, 0)),
     humidity_range |-> HumidityRange(GetOr(weather_info.humidity, 0)),
     weather_condition |-> Lower(GetOr(weather_info.condition, "unknown"))]

\* lines 311-316: the bucket key of a call
PatternKey(user_id, weather_info) ==
    [user_id |-> user_id,
     temperature_range |-> TempRange(GetOr(weather_info.temperature, 0)),
     humidity_range |-> HumidityRange(GetOr(weather_info.humidity, 0)),
     weather_condition |-> GetOr(weather_info.condition, "unknown")]

KeyOfRow(row) ==
    [user_id |-> row.user_id,
     temperature_range |-> row.temperature_range,
     humidity_range |-> row.humidity_range,
     weather_condition |-> row.weather_condition]

Matching(pats, key) == {i \in 1..Len(pats) : KeyOfRow(pats[i]) = key}

\* lines 319-325: SELECT ... fetchone(): nothing, or the first matching row
SelectExisting(pats, key) ==
    IF Matching(pats, key) = {}
    THEN {}
    ELSE LET i == CHOOSE m \in Matching(pats, key) :
                      \A n \in Matching(pats, key) : m <= n
         IN  {[id |-> i,
               avg_mood_impact |-> pats[i].avg_mood_impact,
               sample_count |-> pats[i].sample_count]}

\* the average updated with a fixed weight of one half instead of the count
NewAvgHalving(current_avg, current_count, mood_impact) ==
    Rat(current_avg[1] + mood_impact * current_avg[2], current_avg[2] * 2)

\* the new total divided by the old count
NewAvgOldCount(current_avg, current_count, mood_impact) ==
    Rat(current_avg[1] * current_count + mood_impact * current_avg[2],
        current_avg[2] * current_count)

\* line 330: ((current_avg * current_count) + mood_impact) / (current_count + 1)
NewAvg(current_avg, current_count, mood_impact) ==
    Rat(current_avg[1] * current_count + mood_impact * current_avg[2],
        current_avg[2] * (current_count + 1))

\* lines 327-344: the write the call makes, from what its SELECT fetched
WriteOf(fetched, key, mood_impact) ==
    IF fetched # {}
    THEN [kind |-> "update",
          id |-> Val(fetched).id,
          avg_mood_impact |-> NewAvg(Val(fetched).avg_mood_impact,
                                     Val(fetched).sample_count, mood_impact),
          sample_count |-> Val(fetched).sample_count + 1,
          key |-> key]
    ELSE [kind |-> "insert",
          id |-> 0,
          avg_mood_impact |-> Rat(mood_impact, 1),
          sample_count |-> 1,
          key |-> key]

\* the UPDATE without its WHERE clause: every row takes the new values
ApplyWriteEveryRow(pats, write) ==
    IF write.kind = "update"
    THEN [i \in 1..Len(pats) |->
             [pats[i] EXCEPT !.avg_mood_impact = write.avg_mood_impact,
                             !.sample_count = write.sample_count]]
    ELSE Append(pats, [user_id |-> write.key.user_id,
                       temperature_range |-> write.key.temperature_range,
                       humidity_range |-> write.key.humidity_range,
                       weather_condition |-> write.key.weather_condition,
                       avg_mood_impact |-> write.avg_mood_impact,
                       sample_count |-> write.sample_count])

\* UPDATE ... WHERE id = ?, or INSERT with sample_count DEFAULT 1
ApplyWrite(pats, write) ==
    IF write.kind = "update"
    THEN [pats EXCEPT ![write.id].avg_mood_impact = write.avg_mood_impact,
                      ![write.id].sample_count = write.sample_count]
    ELSE Append(pats, [user_id |-> write.key.user_id,
                       temperature_range |-> write.key.temperature_range,
                       humidity_range |-> write.key.humidity_range,
                       weather_condition |-> write.key.weather_condition,
                       avg_mood_impact |-> write.avg_mood_impact,
                       sample_count |-> write.sample_count])

\* the history entry of a call that returned
CallRecord(user_id, weather_info, mood_impact, write, ok) ==
    [user_id |-> user_id,
     temperature |-> weather_info.temperature,
     humidity |-> weather_info.humidity,
     condition |-> weather_info.condition,
     mood_impact |-> mood_impact,
     key |-> PatternKey(user_id, weather_info),
     kind |-> write.kind,
     ok |-> ok]

\* HabitDatabase.update_weather_pattern run with no other connection active
DbUpdateWeatherPattern(pats, user_id, weather_info, mood_impact) ==
    LET key == PatternKey(user_id, weather_info)
        write == WriteOf(SelectExisting(pats, key), key, mood_impact)
    IN  [ok |-> TRUE,
         patterns |-> ApplyWrite(pats, write),
         call |-> CallRecord(user_id, weather_info, mood_impact, write, TRUE)]

(***************************************************************************)
(* weather_service.py 118-158: get_weather_mood_prediction.  A user        *)
(* pattern is a dictionary of get_weather_mood_patterns (database.py       *)
(* 293-300).  The adjusted score is held as a rational number of points.   *)
(***************************************************************************)
\* lines 144-147: temp and humidity are passed and not looked at
MatchesPattern(temp, humidity, condition, pattern) ==
    Lower(pattern.weather_condition) = Lower(condition)

\* the thresholds taken as strict bounds
GetWeatherRecommendationStrict(score) ==
    IF score[1] > 7 * score[2]
    THEN "Perfect weather for outdoor activities!"
    ELSE IF 2 * score[1] > 11 * score[2]
    THEN "Good weather conditions."
    ELSE IF score[1] > 4 * score[2]
    THEN "Weather might affect your mood slightly."
    ELSE "Weather conditions may negatively impact mood."

\* lines 149-158, the first sentence of each text; score is a rational
GetWeatherRecommendation(score) ==
    IF score[1] >= 7 * score[2]
    THEN "Perfect weather for outdoor activities!"
    ELSE IF 2 * score[1] >= 11 * score[2]
    THEN "Good weather conditions."
    ELSE IF score[1] >= 4 * score[2]
    THEN "Weather might affect your mood slightly."
    ELSE "Weather conditions may negatively impact mood."

MatchingPatterns(wd, ups) ==
    {i \in 1..Len(ups) :
        MatchesPattern(Val(wd.temp), Val(wd.humidity), Val(wd.condition), ups[i])}

\* the loop without its break stops at the last matching pattern
LastMatch(wd, ups) ==
    LET ms == MatchingPatterns(wd, ups)
    IN  IF ms = {} THEN {} ELSE {CHOOSE i \in ms : \A j \in ms : i >= j}

\* lines 131-136: the loop leaves at the first matching pattern
FirstMatch(wd, ups) ==
    LET ms == MatchingPatterns(wd, ups)
    IN  IF ms = {} THEN {} ELSE {CHOOSE i \in ms : \A j \in ms : i <= j}

\* lines 133-134: base_score + (avg_mood_impact - 5.0) * 0.3, base_score in
\* tenths and avg_mood_impact a rational
Adjusted(base_score, avg) ==
    Rat(base_score * avg[2] + 3 * (avg[1] - 5 * avg[2]), 10 * avg[2])

\* line 135
PersonalFactor(pattern) ==
    [group |-> "personal", label |-> "Personal pattern",
     value |-> {pattern.weather_condition}]

Raised(error) ==
    [status |-> error, mood_score |-> 0, unrounded |-> <<0, 1>>,
     impact_factors |-> <<>>, recommendation |-> ""]

NoPrediction == Raised("none")

\* lines 118-142.  With patterns given, a falsy weather_data fails at line
\* 126 (KeyError for {}, TypeError for None).
GetWeatherMoodPrediction(wd, ups) ==
    LET base == CalculateWeatherMoodScore(wd)
    IN  IF base.status # "ok"
        THEN Raised(base.status)
        ELSE IF ups # <<>> /\ ~wd.given
        THEN Raised("KeyError")
        ELSE LET m == IF ups = <<>> THEN {} ELSE FirstMatch(wd, ups)
                 base_score == IF m = {}
                               THEN Rat(base.score, 10)
                               ELSE Adjusted(base.score,
                                             ups[Val(m)].avg_mood_impact)
                 factors == IF m = {}
                            THEN base.factors
                            ELSE Append(base.factors, PersonalFactor(ups[Val(m)]))
             IN  [status |-> "ok",
                  mood_score |-> Round1(base_score[1], base_score[2]),
                  unrounded |-> base_score,
                  impact_factors |-> factors,
                  recommendation |-> GetWeatherRecommendation(base_score)]

(***************************************************************************)
(* Bounds of the model.                                                    *)
(***************************************************************************)
\* store operations in one run of a session
MaxOps == 4

\* update_weather_pattern calls in one run of repeated updates
MaxUpdates == 3

\* connections that call update_weather_pattern at the same time
NumConns == 2

\* update_weather_pattern calls started in one run of the connections
MaxConnCalls == 3

Conns == 1..NumConns

\* the longest pattern list handed to get_weather_mood_prediction
MaxPatterns == 2

\* the number of days the session is followed over
MaxDays == 2

\* the number of CSV save_daily_log calls
MaxSaves == 3

(***************************************************************************)
(* Python main.py 76-116: save_enhanced_log.  fetch is what                *)
(* get_current_weather did: returned None ("none"), raised ("raise") or    *)
(* returned the parsed response ("data").  The session's user is 1.        *)
(***************************************************************************)
\* lines 87-98; the response carries no 'rain' and no 'uvi' key
WeatherInfoOf(wd, scored) ==
    [temperature |-> wd.temp,
     humidity |-> wd.humidity,
     condition |-> wd.condition,
     precipitation |-> {0},
     cloud_cover |-> {GetOr(wd.clouds, 0)},
     wind_speed |-> {GetOr(wd.wind, 0)},
     air_pressure |-> wd.pressure,
     uv_index |-> {0},
     mood_score |-> {scored.score},
     impact_factors |-> {scored.factors}]

LastOp(op, user_id, log_entry, weather, fetch, saved, pattern_updated) ==
    [op |-> op, user_id |-> user_id, log_entry |-> {log_entry},
     weather |-> weather, fetch |-> fetch, ok |-> saved.ok,
     replaced |-> saved.replaced, pattern_updated |-> pattern_updated]

NoOp ==
    [op |-> "none", user_id |-> 0, log_entry |-> {}, weather |-> {},
     fetch |-> "", ok |-> FALSE, replaced |-> FALSE, pattern_updated |-> FALSE]

\* the two places that fall back to db.save_daily_log (lines 110 and 116)
PlainSave(logs, pats, cs, log_entry, fetch) ==
    LET saved == DbSaveDailyLog(logs, log_entry, 1)
    IN  [logs |-> saved.logs, patterns |-> pats, calls |-> cs,
         last |-> LastOp("save_enhanced_log", 1, log_entry, {}, fetch, saved, FALSE)]

\* the fallback left out: nothing is saved when the weather is unavailable
EnhancedLogNoFallback(logs, pats, cs, log_entry, fetch) ==
    [logs |-> logs, patterns |-> pats, calls |-> cs,
     last |-> LastOp("save_enhanced_log", 1, log_entry, {}, fetch.kind,
                     [ok |-> FALSE, replaced |-> FALSE], FALSE)]

EnhancedLog(logs, pats, cs, log_entry, fetch) ==
    IF fetch.kind = "raise"
    THEN PlainSave(logs, pats, cs, log_entry, fetch.kind)
    ELSE IF fetch.kind = "none" \/ ~fetch.data.given
    THEN PlainSave(logs, pats, cs, log_entry, "none")
    ELSE LET scored == CalculateWeatherMoodScore(fetch.data)
         IN  IF scored.status = "KeyError" \/ fetch.data.pressure = {}
             THEN PlainSave(logs, pats, cs, log_entry, "KeyError")
             ELSE LET weather_info == WeatherInfoOf(fetch.data, scored)
                      saved == DbSaveDailyLogWithWeather(logs, log_entry,
                                                         {weather_info}, 1)
                      updated == DbUpdateWeatherPattern(pats, 1, weather_info,
                                                        log_entry.MoodRating)
                  IN  [logs |-> saved.logs,
                       patterns |-> IF saved.ok THEN updated.patterns ELSE pats,
                       calls |-> IF saved.ok THEN Append(cs, updated.call) ELSE cs,
                       last |-> LastOp("save_enhanced_log", 1, log_entry,
                                       {weather_info}, "data", saved, saved.ok)]

(***************************************************************************)
(* Python main.py 118-149: record_daily_entry.  today is a day number and  *)
(* DateOf formats it as strftime('%Y-%m-%d') does for the days of the      *)
(* model.                                                                  *)
(***************************************************************************)
DateOf(day) == "2024-01-0" \o ToString(day)

\* database.py 233-274: the user's rows as dictionaries, in rowid order (the
\* ORDER BY is left out: the caller only asks whether a date occurs)
DbLoadAllLogs(logs, user_id) ==
    LET rows == SelectSeq(logs, LAMBDA r : r.user_id = user_id)
    IN  [i \in 1..Len(rows) |->
            [LogDate |-> rows[i].log_date,
             MoodRating |-> rows[i].mood_rating,
             HadExercise |-> rows[i].had_exercise,
             GotEnoughSleep |-> rows[i].got_enough_sleep,
             HadSocialInteraction |-> rows[i].had_social_interaction,
             AteHealthy |-> rows[i].ate_healthy,
             Notes |-> rows[i].notes]]

\* lines 126-127
AlreadyLogged(logs, today_str) ==
    LET existing_logs == DbLoadAllLogs(logs, 1)
    IN  \E i \in 1..Len(existing_logs) : existing_logs[i].LogDate = today_str

\* the entry saved without looking for one of the same date
RecordEntryUnchecked(logs, pats, cs, today_str, answers, fetch) ==
    EnhancedLog(logs, pats, cs, [answers EXCEPT !.LogDate = today_str], fetch)

\* lines 118-149: nothing is asked and nothing saved when today has an entry
RecordEntry(logs, pats, cs, today_str, answers, fetch) ==
    IF AlreadyLogged(logs, today_str)
    THEN [logs |-> logs, patterns |-> pats, calls |-> cs,
          last |-> [NoOp EXCEPT !.op = "record_daily_entry"]]
    ELSE EnhancedLog(logs, pats, cs, [answers EXCEPT !.LogDate = today_str],
                     fetch)

(***************************************************************************)
(* Python main.py 24-59: the CSV log.  The file is held as its records,    *)
(* each a sequence of field texts, the header record first.  A value of a  *)
(* log entry carries its Python type: <<"str", s>>, <<"int", n>> or        *)
(* <<"bool", b>>.                                                          *)
(***************************************************************************)
\* line 10
HEADERS ==
    <<"LogDate", "MoodRating", "HadExercise", "GotEnoughSleep",
      "HadSocialInteraction", "AteHealthy", "Notes">>

\* the text csv.writer writes for a value: str(value)
Str(value) ==
    CASE value[1] = "str"  -> value[2]
      [] value[1] = "int"  -> ToString(value[2])
      [] value[1] = "bool" -> IF value[2] THEN "True" ELSE "False"

\* DictWriter(f, fieldnames=HEADERS).writerow(log_entry)
CsvRow(log_entry) == [i \in 1..Len(HEADERS) |-> Str(log_entry[HEADERS[i]])]

\* the file written anew whether or not it exists
InitializeDataFileOverwriting(file) == {<<HEADERS>>}

\* lines 24-33: the header is written only when the file does not exist
InitializeDataFile(file) == IF file = {} THEN {<<HEADERS>>} ELSE file

\* lines 35-44: open(DATA_FILE, 'a') and one writerow
MainSaveDailyLog(file, log_entry) ==
    {Append(Val(InitializeDataFile(file)), CsvRow(log_entry))}

\* csv.DictReader: the first record names the fields, every later record is
\* a dictionary of texts
DictOf(fieldnames, record) ==
    [k \in {fieldnames[i] : i \in 1..Len(fieldnames)} |->
        <<"str", record[CHOOSE i \in 1..Len(fieldnames) : fieldnames[i] = k]>>]

\* lines 46-59
MainLoadAllLogs(file) ==
    IF file = {}
    THEN <<>>
    ELSE LET records == Val(file)
         IN  [i \in 1..(Len(records) - 1) |-> DictOf(records[1], records[i + 1])]

(***************************************************************************)
(* The inputs of the store operations.                                     *)
(***************************************************************************)
Entry(date, mood, exercise, sleep, social, healthy, notes) ==
    [LogDate |-> date, MoodRating |-> mood, HadExercise |-> exercise,
     GotEnoughSleep |-> sleep, HadSocialInteraction |-> social,
     AteHealthy |-> healthy, Notes |-> notes]

EntryA == Entry("2024-01-01", 2, TRUE, FALSE, TRUE, FALSE, "")

EntryB == Entry("2024-01-01", 5, FALSE, TRUE, FALSE, TRUE, "gym")

EntryC == Entry("2024-01-02", 4, TRUE, TRUE, FALSE, FALSE, "rainy walk")

\* a mood rating the CHECK constraint rejects
EntryBad == Entry("2024-01-02", 6, TRUE, TRUE, TRUE, TRUE, "")

LogEntries == {EntryA, EntryB, EntryC}

RainyDay == Observation({220}, {45}, {"Rain"}, {81}, {30}, {1015})

WeatherInfoRain == WeatherInfoOf(RainyDay, CalculateWeatherMoodScore(RainyDay))

SaveCalls ==
    {<<u, e>> : u \in {1, 2}, e \in LogEntries} \cup {<<1, EntryBad>>}

SaveWithWeatherCalls ==
    {<<1, e, w>> : e \in LogEntries, w \in {{}, {WeatherInfoRain}}}
    \cup {<<2, EntryA, {WeatherInfoRain}>>, <<1, EntryBad, {WeatherInfoRain}>>}

FetchOutcomes ==
    {[kind |-> "none", data |-> NoObservation],
     [kind |-> "raise", data |-> NoObservation],
     [kind |-> "data", data |-> NoObservation],
     [kind |-> "data", data |-> RainyDay],
     [kind |-> "data", data |-> [RainyDay EXCEPT !.pressure = {}]],
     [kind |-> "data", data |-> [RainyDay EXCEPT !.temp = {}]]}

PatternInfo(t, h, c) ==
    [NoWeatherInfo EXCEPT !.temperature = {t}, !.humidity = {h}, !.condition = {c}]

PatternInfos ==
    {PatternInfo(220, 45, "Rain"), PatternInfo(249, 49, "Rain"),
     PatternInfo(250, 50, "Rain"), PatternInfo(-30, 45, "Rain"),
     PatternInfo(30, 45, "Rain"), PatternInfo(220, 45, "rain")}

MoodImpacts == {4, 6, 8}

\* a weather_info dictionary without the 'temperature' and 'humidity' keys
PatternInfoNoReadings == [NoWeatherInfo EXCEPT !.condition = {"Rain"}]

PatternCalls ==
    {<<1, PatternInfo(220, 45, "Rain"), m>> : m \in MoodImpacts}
    \cup {<<1, i, 4>> : i \in PatternInfos}
    \cup {<<2, PatternInfo(220, 45, "Rain"), m>> : m \in {4, 6}}
    \cup {<<1, PatternInfoNoReadings, 4>>}

(***************************************************************************)
(* The inputs of get_weather_mood_prediction: observations whose base      *)
(* scores run from 0.0 to 9.8, and pattern lists of up to MaxPatterns rows *)
(* whose labels match the observations in either spelling.                 *)
(***************************************************************************)
PredictObservations ==
    {Observation({t}, {h}, {c}, {}, w, p) :
        t \in {200, 351}, h \in {50, 81}, c \in {"Rain", "Thunderstorm", "Haze"},
        w \in {{}, {101}}, p \in {{}, {999}, {1021}}}
    \cup {Observation({200}, {50}, {"Clear"}, {}, {30}, {1021}),
          Observation({}, {50}, {"Rain"}, {}, {30}, {1015}),
          NoObservation}

UserPattern(c, avg) ==
    [temperature_range |-> "20-25", humidity_range |-> "40-50",
     weather_condition |-> c, avg_mood_impact |-> avg, sample_count |-> 10]

UserPatternRows ==
    {UserPattern(c, avg) :
        c \in {"Rain", "rain", "Haze", "Clear"},
        avg \in {<<1, 1>>, <<49, 10>>, <<8, 1>>}}

PatternLists ==
    UNION {[1..n -> UserPatternRows] : n \in 0..MaxPatterns}

\* the entries handed to the CSV save_daily_log: two with text values, as
\* the tests write them, and one with the values record_daily_entry builds
CsvEntry(date, mood, exercise, sleep, social, healthy, notes) ==
    [LogDate |-> <<"str", date>>, MoodRating |-> mood, HadExercise |-> exercise,
     GotEnoughSleep |-> sleep, HadSocialInteraction |-> social,
     AteHealthy |-> healthy, Notes |-> <<"str", notes>>]

CsvEntries ==
    {CsvEntry("2024-01-15", <<"str", "8">>, <<"str", "Yes">>, <<"str", "Yes">>,
              <<"str", "No">>, <<"str", "Yes">>, "Great day!"),
     CsvEntry("2024-01-16", <<"str", "6">>, <<"str", "No">>, <<"str", "Yes">>,
              <<"str", "Yes">>, <<"str", "No">>, "Okay day"),
     CsvEntry("2024-01-17", <<"int", 4>>, <<"bool", TRUE>>, <<"bool", FALSE>>,
              <<"bool", TRUE>>, <<"bool", FALSE>>, "")}

\* the session starts on day 1, 2024-01-01
FirstDay == 1

SunnyDay == Observation({200}, {50}, {"Clear"}, {0}, {30}, {1015})

\* what the user types at the prompts of record_daily_entry
SessionAnswers ==
    {Entry("", m, m % 2 = 1, m > 2, FALSE, TRUE, IF m = 3 THEN "gym" ELSE "") :
        m \in 1..5}

SessionFetches ==
    {[kind |-> "none", data |-> NoObservation],
     [kind |-> "data", data |-> RainyDay],
     [kind |-> "data", data |-> SunnyDay],
     [kind |-> "data", data |-> [RainyDay EXCEPT !.temp = {}]]}

(***************************************************************************)
(* Initial values.                                                         *)
(***************************************************************************)
NoArgs == [user_id |-> 0, weather_info |-> NoWeatherInfo, mood_impact |-> 0]

NoWrite ==
    [kind |-> "none", id |-> 0, avg_mood_impact |-> <<0, 1>>, sample_count |-> 0,
     key |-> PatternKey(0, NoWeatherInfo)]

InitScoring ==
    /\ weather_data = NoObservation
    /\ result = NoResult

InitStore ==
    /\ daily_logs = <<>>
    /\ patterns = <<>>
    /\ calls = <<>>
    /\ last = NoOp
    /\ ops = 0

InitConns ==
    /\ pc = [p \in Conns |-> "idle"]
    /\ args = [p \in Conns |-> NoArgs]
    /\ existing = [p \in Conns |-> {}]
    /\ pending = [p \in Conns |-> NoWrite]

InitPredict ==
    /\ user_patterns = <<>>
    /\ prediction = NoPrediction

InitSession == today = FirstDay

InitCsv ==
    /\ data_file = {}
    /\ csv_saved = <<>>
    /\ csv_loaded = {}

Init ==
    /\ InitScoring /\ InitStore /\ InitConns
    /\ InitPredict /\ InitSession /\ InitCsv

(***************************************************************************)
(* The scoring engine run on one observation: the caller obtains an        *)
(* observation (or keeps the falsy one it starts with) and scores it.      *)
(***************************************************************************)
Observe ==
    /\ weather_data = NoObservation
    /\ result.status = "none"
    /\ \/ weather_data' \in FullObservations
       \/ weather_data' \in PartialObservations
    /\ UNCHANGED <<result, storeVars, connVars,
                 predictVars, sessionVars, csvVars>>

Score ==
    /\ result.status = "none"
    /\ result' = CalculateWeatherMoodScore(weather_data)
    /\ UNCHANGED <<weather_data, storeVars, connVars,
                 predictVars, sessionVars, csvVars>>

NextScore == Observe \/ Score

SpecScore == Init /\ [][NextScore]_vars

(***************************************************************************)
(* get_weather_mood_prediction run on one observation and one pattern list. *)
(***************************************************************************)
ObserveForPrediction ==
    /\ weather_data = NoObservation
    /\ user_patterns = <<>>
    /\ prediction.status = "none"
    /\ weather_data' \in PredictObservations
    /\ user_patterns' \in PatternLists
    /\ UNCHANGED <<result, prediction, storeVars, connVars, sessionVars, csvVars>>

Predict ==
    /\ prediction.status = "none"
    /\ prediction' = GetWeatherMoodPrediction(weather_data, user_patterns)
    /\ UNCHANGED <<scoreVars, user_patterns, storeVars, connVars, sessionVars,
                   csvVars>>

NextPredict == ObserveForPrediction \/ Predict

SpecPredict == Init /\ [][NextPredict]_vars

(***************************************************************************)
(* The store used by one session: each operation runs to its end before    *)
(* the next starts.                                                        *)
(***************************************************************************)
SaveDailyLog ==
    \E c \in SaveCalls :
        LET saved == DbSaveDailyLog(daily_logs, c[2], c[1])
        IN  /\ ops < MaxOps
            /\ daily_logs' = saved.logs
            /\ last' = LastOp("save_daily_log", c[1], c[2], {}, "", saved, FALSE)
            /\ ops' = ops + 1
            /\ UNCHANGED <<patterns, calls, scoreVars, connVars,
                 predictVars, sessionVars, csvVars>>

SaveDailyLogWithWeather ==
    \E c \in SaveWithWeatherCalls :
        LET saved == DbSaveDailyLogWithWeather(daily_logs, c[2], c[3], c[1])
        IN  /\ ops < MaxOps
            /\ daily_logs' = saved.logs
            /\ last' = LastOp("save_daily_log_with_weather", c[1], c[2], c[3], "",
                              saved, FALSE)
            /\ ops' = ops + 1
            /\ UNCHANGED <<patterns, calls, scoreVars, connVars,
                 predictVars, sessionVars, csvVars>>

SaveEnhancedLog ==
    \E e \in LogEntries, f \in FetchOutcomes :
        LET done == EnhancedLog(daily_logs, patterns, calls, e, f)
        IN  /\ ops < MaxOps
            /\ daily_logs' = done.logs
            /\ patterns' = done.patterns
            /\ calls' = done.calls
            /\ last' = done.last
            /\ ops' = ops + 1
            /\ UNCHANGED <<scoreVars, connVars,
                 predictVars, sessionVars, csvVars>>

Next == SaveDailyLog \/ SaveDailyLogWithWeather \/ SaveEnhancedLog

Spec == Init /\ [][Next]_vars

(***************************************************************************)
(* update_weather_pattern called again and again by one session.           *)
(***************************************************************************)
UpdateWeatherPattern ==
    \E c \in PatternCalls :
        LET done == DbUpdateWeatherPattern(patterns, c[1], c[2], c[3])
        IN  /\ ops < MaxUpdates
            /\ patterns' = done.patterns
            /\ calls' = Append(calls, done.call)
            /\ ops' = ops + 1
            /\ UNCHANGED <<daily_logs, last, scoreVars, connVars,
                 predictVars, sessionVars, csvVars>>

NextPatterns == UpdateWeatherPattern

SpecPatterns == Init /\ [][NextPatterns]_vars

(***************************************************************************)
(* The interactive session: record_daily_entry called any number of times  *)
(* a day, over several days.                                               *)
(***************************************************************************)
RecordDailyEntry ==
    \E a \in SessionAnswers, f \in SessionFetches :
        LET done == RecordEntry(daily_logs, patterns, calls, DateOf(today), a, f)
        IN  /\ ops < MaxOps
            /\ daily_logs' = done.logs
            /\ patterns' = done.patterns
            /\ calls' = done.calls
            /\ last' = done.last
            /\ ops' = ops + 1
            /\ UNCHANGED <<scoreVars, connVars, predictVars, sessionVars, csvVars>>

NextDay ==
    /\ today < MaxDays
    /\ today' = today + 1
    /\ UNCHANGED <<scoreVars, storeVars, connVars, predictVars, csvVars>>

NextSession == RecordDailyEntry \/ NextDay

SpecSession == Init /\ [][NextSession]_vars

(***************************************************************************)
(* The CSV log: the three functions called in any order.  csv_loaded       *)
(* remembers, with the list load_all_logs returned, how many entries had   *)
(* been saved and whether the file existed when it was called.             *)
(***************************************************************************)
InitializeFile ==
    /\ data_file' = InitializeDataFile(data_file)
    /\ UNCHANGED <<csv_saved, csv_loaded, scoreVars, storeVars, connVars,
                   predictVars, sessionVars>>

CsvSaveDailyLog ==
    \E e \in CsvEntries :
        /\ Len(csv_saved) < MaxSaves
        /\ data_file' = MainSaveDailyLog(data_file, e)
        /\ csv_saved' = Append(csv_saved, e)
        /\ UNCHANGED <<csv_loaded, scoreVars, storeVars, connVars, predictVars,
                       sessionVars>>

CsvLoadAllLogs ==
    /\ csv_loaded' = {[at |-> Len(csv_saved), existed |-> data_file # {},
                       logs |-> MainLoadAllLogs(data_file)]}
    /\ UNCHANGED <<data_file, csv_saved, scoreVars, storeVars, connVars,
                   predictVars, sessionVars>>

NextCsv == InitializeFile \/ CsvSaveDailyLog \/ CsvLoadAllLogs

SpecCsv == Init /\ [][NextCsv]_vars

(***************************************************************************)
(* update_weather_pattern called from several connections at once.  Each   *)
(* call opens its own connection (line 306).  Its SELECT runs outside any  *)
(* transaction; the UPDATE or INSERT opens one and takes SQLite's write    *)
(* lock, which a second writer waits for until its timeout; the commit     *)
(* publishes the write and releases the lock.                              *)
(***************************************************************************)
ConnCalls ==
    {[user_id |-> 1, weather_info |-> i, mood_impact |-> m] :
        i \in {PatternInfo(220, 45, "Rain"), PatternInfo(250, 50, "Rain")},
        m \in {4, 6}}

KeyOfConn(p) == PatternKey(args[p].user_id, args[p].weather_info)

WriteLocked(p) == \E q \in Conns : q # p /\ pc[q] = "commit"

\* lines 304-316: the call starts
Call(p) ==
    /\ pc[p] = "idle"
    /\ ops < MaxConnCalls
    /\ \E c \in ConnCalls : args' = [args EXCEPT ![p] = c]
    /\ pc' = [pc EXCEPT ![p] = "select"]
    /\ ops' = ops + 1
    /\ UNCHANGED <<existing, pending, patterns, calls, daily_logs, last, scoreVars,
                 predictVars, sessionVars, csvVars>>

\* lines 319-325
Select(p) ==
    /\ pc[p] = "select"
    /\ existing' = [existing EXCEPT ![p] = SelectExisting(patterns, KeyOfConn(p))]
    /\ pc' = [pc EXCEPT ![p] = "write"]
    /\ UNCHANGED <<args, pending, storeVars, scoreVars,
                 predictVars, sessionVars, csvVars>>

\* lines 327-344
Write(p) ==
    /\ pc[p] = "write"
    /\ ~WriteLocked(p)
    /\ pending' = [pending EXCEPT
                      ![p] = WriteOf(existing[p], KeyOfConn(p), args[p].mood_impact)]
    /\ pc' = [pc EXCEPT ![p] = "commit"]
    /\ UNCHANGED <<args, existing, storeVars, scoreVars,
                 predictVars, sessionVars, csvVars>>

\* lines 348-351: the write lock stayed taken for the connection's timeout;
\* execute raises "database is locked", the call rolls back and returns False
Busy(p) ==
    /\ pc[p] = "write"
    /\ WriteLocked(p)
    /\ calls' = Append(calls,
                       CallRecord(args[p].user_id, args[p].weather_info,
                                  args[p].mood_impact,
                                  WriteOf(existing[p], KeyOfConn(p),
                                          args[p].mood_impact),
                                  FALSE))
    /\ pc' = [pc EXCEPT ![p] = "idle"]
    /\ args' = [args EXCEPT ![p] = NoArgs]
    /\ existing' = [existing EXCEPT ![p] = {}]
    /\ UNCHANGED <<pending, patterns, daily_logs, last, ops, scoreVars,
                 predictVars, sessionVars, csvVars>>

\* lines 346-347
Commit(p) ==
    /\ pc[p] = "commit"
    /\ patterns' = ApplyWrite(patterns, pending[p])
    /\ calls' = Append(calls,
                       CallRecord(args[p].user_id, args[p].weather_info,
                                  args[p].mood_impact, pending[p], TRUE))
    /\ pc' = [pc EXCEPT ![p] = "idle"]
    /\ args' = [args EXCEPT ![p] = NoArgs]
    /\ existing' = [existing EXCEPT ![p] = {}]
    /\ pending' = [pending EXCEPT ![p] = NoWrite]
    /\ UNCHANGED <<daily_logs, last, ops, scoreVars,
                 predictVars, sessionVars, csvVars>>

NextConns ==
    \E p \in Conns : Call(p) \/ Select(p) \/ Write(p) \/ Busy(p) \/ Commit(p)

SpecConns == Init /\ [][NextConns]_vars

(***************************************************************************)
(* update_weather_pattern called from several connections, for two users,  *)
(* on a database that also receives daily log entries.                     *)
(***************************************************************************)
FrameCalls ==
    {[user_id |-> 1, weather_info |-> PatternInfo(220, 45, "Rain"), mood_impact |-> 4],
     [user_id |-> 1, weather_info |-> PatternInfo(250, 50, "Rain"), mood_impact |-> 6],
     [user_id |-> 2, weather_info |-> PatternInfo(220, 45, "Rain"), mood_impact |-> 8]}

FrameSaves == {<<1, EntryA>>, <<2, EntryC>>}

\* lines 304-316: the call starts
CallFor(p) ==
    /\ pc[p] = "idle"
    /\ ops < MaxConnCalls
    /\ \E c \in FrameCalls : args' = [args EXCEPT ![p] = c]
    /\ pc' = [pc EXCEPT ![p] = "select"]
    /\ ops' = ops + 1
    /\ UNCHANGED <<existing, pending, patterns, calls, daily_logs, last, scoreVars,
                   predictVars, sessionVars, csvVars>>

\* save_daily_log of an entry not stored yet, between the steps of the calls
SaveBesideCalls ==
    \E c \in FrameSaves :
        LET saved == DbSaveDailyLog(daily_logs, c[2], c[1])
        IN  /\ ~HasLog(daily_logs, LogRow(c[1], c[2]))
            /\ daily_logs' = saved.logs
            /\ last' = LastOp("save_daily_log", c[1], c[2], {}, "", saved, FALSE)
            /\ UNCHANGED <<patterns, calls, ops, scoreVars, connVars, predictVars,
                           sessionVars, csvVars>>

NextFrame ==
    \/ SaveBesideCalls
    \/ \E p \in Conns : CallFor(p) \/ Select(p) \/ Write(p) \/ Busy(p) \/ Commit(p)

SpecFrame == Init /\ [][NextFrame]_vars

(***************************************************************************)
(* Helpers of the properties below.                                        *)
(***************************************************************************)
Scored == result.status = "ok" /\ weather_data.given

GroupsOf(factors) == [i \in 1..Len(factors) |-> factors[i].group]

GroupIndex(g) ==
    CASE g = "temperature" -> 1
      [] g = "humidity"    -> 2
      [] g = "condition"   -> 3
      [] g = "wind"        -> 4
      [] g = "pressure"    -> 5
      [] OTHER             -> 6

FactorsOfGroup(g) == SelectSeq(result.factors, LAMBDA f : f.group = g)

\* C1: every score calculate_weather_mood_score returns lies in [0, 10],
\* also when the baseline plus the rule deltas falls outside that range.
C1_ScoreInRange ==
    result.status = "ok" => (0 <= result.score /\ result.score <= 100)

C1_Witness ==
    /\ Scored
    /\ result.raw < 0
    /\ result.score = 0

\* C2: for every temperature exactly one temperature rule fires, with the
\* stated boundaries, label and delta.
C2_Band(t) ==
    IF 180 <= t /\ t <= 250 THEN <<"Comfortable temperature", 15>>
    ELSE IF (150 <= t /\ t < 180) \/ (250 < t /\ t <= 280)
    THEN <<"Pleasant temperature", 5>>
    ELSE IF t < 50 \/ t > 350 THEN <<"Extreme temperature", -20>>
    ELSE <<"Uncomfortable temperature", -10>>

C2_OneTemperatureRule ==
    Scored =>
        LET t == Val(weather_data.temp)
            fired == FactorsOfGroup("temperature")
            others == HumidityRule(Val(weather_data.humidity)).delta
                      + ConditionRule(Val(weather_data.condition),
                                      weather_data.clouds).delta
                      + WindRule(weather_data.wind).delta
                      + PressureRule(weather_data.pressure).delta
        IN  /\ Len(fired) = 1
            /\ fired[1].label = C2_Band(t)[1]
            /\ fired[1].value = {t}
            /\ result.raw - 50 - others = C2_Band(t)[2]

C2_Witness ==
    /\ Scored
    /\ Val(weather_data.temp) = 149
    /\ FactorsOfGroup("temperature")[1].label = "Uncomfortable temperature"

\* C9: {temp=20, humidity=50, "Clear", wind=3, pressure=1015} scores 9.3 with
\* the four factors temperature, humidity, condition, wind in that order; and
\* for every observation the factors come in the fixed group order with at
\* most one factor per group.
C9_Example ==
    /\ weather_data.given
    /\ weather_data.temp = {200}
    /\ weather_data.humidity = {50}
    /\ weather_data.condition = {"Clear"}
    /\ weather_data.wind = {30}
    /\ weather_data.pressure = {1015}

C9_FactorOrder ==
    Scored =>
        LET groups == GroupsOf(result.factors)
        IN  /\ \A i \in 1..Len(groups) : GroupIndex(groups[i]) <= 5
            /\ \A i, j \in 1..Len(groups) :
                  i < j => GroupIndex(groups[i]) < GroupIndex(groups[j])
            /\ C9_Example =>
                  /\ result.score = 93
                  /\ groups = <<"temperature", "humidity", "condition", "wind">>

C9_Witness ==
    /\ Scored
    /\ C9_Example
    /\ Len(result.factors) = 4

\* C10 as stated: for ideal temperature, ideal humidity, clear sky, gentle
\* breeze and high pressure the summed deltas exceed the upper bound and the
\* score returned is the clamped 10.0.
C10_Ideal ==
    /\ weather_data.given
    /\ weather_data.temp # {} /\ weather_data.humidity # {}
    /\ weather_data.condition # {} /\ weather_data.wind # {}
    /\ weather_data.pressure # {}
    /\ 180 <= Val(weather_data.temp) /\ Val(weather_data.temp) <= 250
    /\ 40 <= Val(weather_data.humidity) /\ Val(weather_data.humidity) <= 60
    /\ Lower(Val(weather_data.condition)) \in {"clear", "sunny"}
    /\ 20 <= Val(weather_data.wind) /\ Val(weather_data.wind) <= 50
    /\ Val(weather_data.pressure) > 1020

C10_ClampsAtTen ==
    (Scored /\ C10_Ideal) => (result.raw > 100 /\ result.score = 100)

\* C10 amended: for that observation the baseline plus the deltas is 9.8,
\* which is within the bounds, and the score returned is 9.8.
C10_IdealScoresNinePointEight ==
    (Scored /\ C10_Ideal) => (result.raw = 98 /\ result.score = 98)

C10_Witness ==
    /\ Scored
    /\ C10_Ideal
    /\ Len(result.factors) = 5

(***************************************************************************)
(* Helpers of the properties about the store.                              *)
(***************************************************************************)
RECURSIVE SumImpacts(_)
SumImpacts(cs) ==
    IF cs = <<>> THEN 0 ELSE Head(cs).mood_impact + SumImpacts(Tail(cs))

RoutedTo(key) == SelectSeq(calls, LAMBDA c : c.key = key)

ImpactsOf(cs) == [i \in 1..Len(cs) |-> cs[i].mood_impact]

\* the row holds exactly the arithmetic mean of the calls cs and their number
HoldsMeanOf(row, cs) ==
    /\ row.sample_count = Len(cs)
    /\ row.avg_mood_impact[2] > 0
    /\ row.avg_mood_impact[1] * Len(cs) = SumImpacts(cs) * row.avg_mood_impact[2]

\* C3: after n >= 1 sequential update_weather_pattern calls routed to one key
\* the stored pattern has sample_count n and the exact mean of the n impacts
\* as its average (so 4, 6, 8 give 4, 5, 6 with counts 1, 2, 3).
C3_RunningMean ==
    \A i \in 1..Len(calls) :
        LET key == calls[i].key
        IN  /\ Cardinality(Matching(patterns, key)) = 1
            /\ \A r \in Matching(patterns, key) :
                  HoldsMeanOf(patterns[r], RoutedTo(key))

C3_Witness ==
    \E r \in 1..Len(patterns) :
        /\ ImpactsOf(RoutedTo(KeyOfRow(patterns[r]))) = <<4, 6, 8>>
        /\ patterns[r].sample_count = 3
        /\ patterns[r].avg_mood_impact = <<6, 1>>

\* C4 as stated: once all the concurrent update_weather_pattern calls have
\* returned, each bucket's sample_count has grown by the number of calls made
\* for it and its average includes every one of their mood impacts.
C4_NoLostUpdate ==
    (\A p \in Conns : pc[p] = "idle") =>
        \A i \in 1..Len(calls) :
            \E r \in Matching(patterns, calls[i].key) :
                HoldsMeanOf(patterns[r], RoutedTo(calls[i].key))

(***************************************************************************)
(* The columns of daily_logs that come from the log entry and those that   *)
(* come from the weather.                                                  *)
(***************************************************************************)
CarriesEntry(row, log_entry) ==
    /\ row.log_date = log_entry.LogDate
    /\ row.mood_rating = log_entry.MoodRating
    /\ row.had_exercise = log_entry.HadExercise
    /\ row.got_enough_sleep = log_entry.GotEnoughSleep
    /\ row.had_social_interaction = log_entry.HadSocialInteraction
    /\ row.ate_healthy = log_entry.AteHealthy
    /\ row.notes = log_entry.Notes

CarriesNoWeather(row) ==
    /\ row.temperature = {}
    /\ row.humidity = {}
    /\ row.weather_condition = {}
    /\ row.cloud_cover = {}
    /\ row.wind_speed = {}
    /\ row.air_pressure = {}
    /\ row.uv_index = {}
    /\ row.weather_mood_score = {}
    /\ row.weather_impact_factors = {}

CarriesWeather(row, weather_info) ==
    /\ row.temperature = weather_info.temperature
    /\ row.humidity = weather_info.humidity
    /\ row.weather_condition = weather_info.condition
    /\ row.cloud_cover = weather_info.cloud_cover
    /\ row.wind_speed = weather_info.wind_speed
    /\ row.air_pressure = weather_info.air_pressure
    /\ row.uv_index = weather_info.uv_index
    /\ row.weather_mood_score = weather_info.mood_score

LogsOf(logs, user_id, date) ==
    {i \in 1..Len(logs) : logs[i].user_id = user_id /\ logs[i].log_date = date}

\* C5: the daily log store never holds two entries for one (user_id,
\* log_date), and after a save of an entry (one the schema accepts: mood
\* rating 1..5) the single entry stored for its (user, date) has exactly the
\* fields of that save, the weather fields empty if it carried no weather.
C5_OneEntryPerUserAndDate ==
    /\ \A i, j \in 1..Len(daily_logs) :
          (daily_logs[i].user_id = daily_logs[j].user_id
           /\ daily_logs[i].log_date = daily_logs[j].log_date) => i = j
    /\ (last.op # "none" /\ Val(last.log_entry).MoodRating \in 1..5) =>
          LET mine == LogsOf(daily_logs, last.user_id, Val(last.log_entry).LogDate)
          IN  /\ last.ok
              /\ Cardinality(mine) = 1
              /\ \A i \in mine :
                    /\ CarriesEntry(daily_logs[i], Val(last.log_entry))
                    /\ IF last.weather = {}
                       THEN CarriesNoWeather(daily_logs[i])
                       ELSE CarriesWeather(daily_logs[i], Val(last.weather))

C5_Witness ==
    /\ last.op = "save_daily_log"
    /\ last.replaced
    /\ Len(daily_logs) = 2
    /\ \E i \in 1..Len(daily_logs) :
          /\ daily_logs[i].user_id = last.user_id
          /\ CarriesEntry(daily_logs[i], Val(last.log_entry))
          /\ CarriesNoWeather(daily_logs[i])

\* C6: when the weather fetch fails (nothing returned, or the fetch or the
\* scoring raises) save_enhanced_log still stores the entry for its date,
\* without weather snapshot or score, and leaves weather_mood_patterns alone.
C6_Failed == last.op = "save_enhanced_log" /\ last.fetch \in {"none", "raise", "KeyError"}

C6_EntrySavedWithoutWeather ==
    [][(C6_Failed' /\ ops' = ops + 1) =>
          /\ patterns' = patterns
          /\ LET mine == LogsOf(daily_logs', 1, Val(last'.log_entry).LogDate)
             IN  /\ Cardinality(mine) = 1
                 /\ \A i \in mine :
                       /\ CarriesEntry(daily_logs'[i], Val(last'.log_entry))
                       /\ CarriesNoWeather(daily_logs'[i])]_vars

C6_Witness ==
    /\ last.op = "save_enhanced_log"
    /\ last.fetch = "KeyError"
    /\ last.replaced
    /\ Len(patterns) = 1
    /\ \A i \in 1..Len(daily_logs) : CarriesNoWeather(daily_logs[i])

\* C7 as stated: under any sequence or interleaving of update_weather_pattern
\* calls no two pattern rows share a key, every row has sample_count >= 1 and
\* no row is ever removed (every row a call inserted is still there).
C7_PatternKeyUnique ==
    /\ \A i, j \in 1..Len(patterns) :
          KeyOfRow(patterns[i]) = KeyOfRow(patterns[j]) => i = j
    /\ \A i \in 1..Len(patterns) : patterns[i].sample_count >= 1
    /\ \A i \in 1..Len(calls) :
          calls[i].ok => Matching(patterns, calls[i].key) # {}

(***************************************************************************)
(* floor(t/5) of a temperature in tenths and floor(h/10) of a humidity.    *)
(***************************************************************************)
Floor5(t) == CHOOSE k \in -10..10 : 50 * k <= t /\ t < 50 * k + 50

Floor10(h) == CHOOSE k \in 0..10 : 10 * k <= h /\ h < 10 * k + 10

\* C8: update_weather_pattern files a temperature t under the band
\* [5*floor(t/5), 5*floor(t/5)+5) and a humidity h under
\* [10*floor(h/10), 10*floor(h/10)+10), written "lo-hi": two observations
\* share the bucket iff the floors are equal, 22.0 and 24.9 land in "20-25",
\* 25.0 in "25-30", and negative temperatures follow the same rule.
C8_Buckets ==
    LET cs == SelectSeq(calls, LAMBDA c : c.temperature # {} /\ c.humidity # {})
        n == Len(cs)
        f5 == [i \in 1..n |-> Floor5(Val(cs[i].temperature))]
        f10 == [i \in 1..n |-> Floor10(Val(cs[i].humidity))]
        tr == [i \in 1..n |-> cs[i].key.temperature_range]
        hr == [i \in 1..n |-> cs[i].key.humidity_range]
    IN  /\ \A i \in 1..n :
              /\ tr[i] = ToString(5 * f5[i]) \o "-" \o ToString(5 * f5[i] + 5)
              /\ hr[i] = ToString(10 * f10[i]) \o "-" \o ToString(10 * f10[i] + 10)
              /\ cs[i].temperature \in {{220}, {249}} => tr[i] = "20-25"
              /\ cs[i].temperature = {250} => tr[i] = "25-30"
              /\ \E r \in 1..Len(patterns) :
                    /\ patterns[r].temperature_range = tr[i]
                    /\ patterns[r].humidity_range = hr[i]
        /\ \A i, j \in 1..n :
              /\ (tr[i] = tr[j]) <=> (f5[i] = f5[j])
              /\ (hr[i] = hr[j]) <=> (f10[i] = f10[j])

C8_Witness ==
    \E i, j, k \in 1..Len(calls) :
        /\ calls[i].temperature = {249} /\ calls[i].key.temperature_range = "20-25"
        /\ calls[j].temperature = {250} /\ calls[j].key.temperature_range = "25-30"
        /\ calls[k].temperature = {-30} /\ calls[k].key.temperature_range = "-5-0"

\* C11 as stated: scoring an observation whose temperature or humidity is
\* missing (the empty or absent observation included) ends in an error, never
\* in a score, and no update_weather_pattern call builds its bucket key from
\* a temperature or humidity it had to default.
C11_FailsFastOnMissingReadings ==
    /\ (result.status # "none"
        /\ (~weather_data.given \/ weather_data.temp = {}
            \/ weather_data.humidity = {})) => result.status = "KeyError"
    /\ \A i \in 1..Len(calls) :
          calls[i].temperature # {} /\ calls[i].humidity # {}

(***************************************************************************)
(* The rule table as the specification words it, a comparison with an      *)
(* absent field being false.                                               *)
(***************************************************************************)
C12_HumidityDelta(h) ==
    IF h >= 40 /\ h <= 60 THEN 5
    ELSE IF h > 80 THEN -15
    ELSE IF h < 30 THEN -5
    ELSE 0

C12_ConditionDelta(label, clouds) ==
    LET c == Lower(label)
    IN  IF c \in {"clear", "sunny"} THEN 20
        ELSE IF c = "clouds"
        THEN IF \E v \in clouds : v < 30 THEN 10
             ELSE IF \E v \in clouds : v > 80 THEN -10
             ELSE 0
        ELSE IF c \in {"rain", "drizzle"} THEN -15
        ELSE IF c = "thunderstorm" THEN -20
        ELSE IF c = "snow" THEN -10
        ELSE IF c \in {"mist", "fog"} THEN -5
        ELSE 0

C12_WindDelta(wind) ==
    IF \E v \in wind : v > 100 THEN -10
    ELSE IF \E v \in wind : v >= 20 /\ v <= 50 THEN 3
    ELSE 0

C12_PressureDelta(pressure) ==
    IF \E v \in pressure : v < 1000 THEN -8
    ELSE IF \E v \in pressure : v > 1020 THEN 5
    ELSE 0

C12_KnownConditions ==
    {"clear", "sunny", "clouds", "rain", "drizzle", "thunderstorm", "snow",
     "mist", "fog"}

\* C12 as stated: for every observation the score before clamping is 5.0
\* plus the temperature delta plus the deltas of the humidity, condition,
\* wind and pressure rules of the table, and a condition label outside the
\* table adds no factor.
C12_RuleTable ==
    Scored =>
        /\ result.raw = 50 + TemperatureRule(Val(weather_data.temp)).delta
                           + C12_HumidityDelta(Val(weather_data.humidity))
                           + C12_ConditionDelta(Val(weather_data.condition),
                                                weather_data.clouds)
                           + C12_WindDelta(weather_data.wind)
                           + C12_PressureDelta(weather_data.pressure)
        /\ Lower(Val(weather_data.condition)) \notin C12_KnownConditions =>
              FactorsOfGroup("condition") = <<>>

\* C13 as stated: an absent pressure, wind speed or cloud cover adds no delta
\* and no factor, so score and factors are what they would be without that
\* rule, and a present one (a present 0 included) is evaluated by its rule.
C13_AbsentRuleSkipped ==
    Scored =>
        LET outs == RuleOutcomes(weather_data)
            cloudy == Lower(Val(weather_data.condition)) = "clouds"
        IN  /\ weather_data.pressure = {} =>
                  outs[5].delta = 0 /\ FactorsOfGroup("pressure") = <<>>
            /\ weather_data.wind = {} =>
                  outs[4].delta = 0 /\ FactorsOfGroup("wind") = <<>>
            /\ (weather_data.clouds = {} /\ cloudy) =>
                  outs[3].delta = 0 /\ FactorsOfGroup("condition") = <<>>
            /\ weather_data.pressure # {} =>
                  outs[5].delta = C12_PressureDelta(weather_data.pressure)
            /\ weather_data.wind # {} =>
                  outs[4].delta = C12_WindDelta(weather_data.wind)
            /\ (weather_data.clouds # {} /\ cloudy) =>
                  outs[3].delta = C12_ConditionDelta("Clouds", weather_data.clouds)

(***************************************************************************)
(* Helpers of the properties about get_weather_mood_prediction.            *)
(***************************************************************************)
Predicted == prediction.status = "ok" /\ weather_data.given

C14_Matches ==
    {i \in 1..Len(user_patterns) :
        Lower(user_patterns[i].weather_condition)
            = Lower(Val(weather_data.condition))}

C14_PersonalFactors ==
    SelectSeq(prediction.impact_factors, LAMBDA f : f.group = "personal")

\* C14: get_weather_mood_prediction applies at most one pattern.  The first
\* pattern of the list whose label matches the observation's (in any case)
\* moves the base score by (avg_mood_impact - 5.0) * 0.3 and appends one
\* personal pattern factor naming it; later matches change nothing; with no
\* match score and factors are those of calculate_weather_mood_score.
C14_FirstMatchOnly ==
    Predicted =>
        LET base == CalculateWeatherMoodScore(weather_data)
        IN  IF C14_Matches = {}
            THEN /\ prediction.mood_score = base.score
                 /\ prediction.impact_factors = base.factors
            ELSE \E i \in C14_Matches :
                    LET avg == user_patterns[i].avg_mood_impact
                    IN  /\ \A j \in C14_Matches : i <= j
                        /\ 10 * avg[2] * prediction.unrounded[1]
                              = prediction.unrounded[2]
                                * (base.score * avg[2] + 3 * (avg[1] - 5 * avg[2]))
                        /\ prediction.impact_factors
                              = Append(base.factors,
                                       [group |-> "personal",
                                        label |-> "Personal pattern",
                                        value |-> {user_patterns[i].weather_condition}])
                        /\ Len(C14_PersonalFactors) = 1

\* two matching patterns with different averages: the first one counts
C14_Witness ==
    /\ Predicted
    /\ Cardinality(C14_Matches) = 2
    /\ user_patterns[1].weather_condition = "rain"
    /\ user_patterns[1].avg_mood_impact = <<1, 1>>
    /\ user_patterns[2].avg_mood_impact = <<8, 1>>
    /\ Val(weather_data.condition) = "Rain"
    /\ CalculateWeatherMoodScore(weather_data).score = 40
    /\ prediction.mood_score = 28
    /\ Len(C14_PersonalFactors) = 1

\* the tier the claim assigns to a score given in tenths
C15_TierOfTenths(score) ==
    IF score >= 70 THEN "Perfect weather for outdoor activities!"
    ELSE IF score >= 55 THEN "Good weather conditions."
    ELSE IF score >= 40 THEN "Weather might affect your mood slightly."
    ELSE "Weather conditions may negatively impact mood."

\* the tier of a rational score
C15_TierOf(score) ==
    IF score[1] >= 7 * score[2] THEN "Perfect weather for outdoor activities!"
    ELSE IF 2 * score[1] >= 11 * score[2] THEN "Good weather conditions."
    ELSE IF score[1] >= 4 * score[2] THEN "Weather might affect your mood slightly."
    ELSE "Weather conditions may negatively impact mood."

\* C15 as stated: the recommendation is the tier of the returned mood_score
\* (>= 7, >= 5.5, >= 4, below 4) for every observation and pattern list.
C15_TierOfReturnedScore ==
    prediction.status = "ok" =>
        prediction.recommendation = C15_TierOfTenths(prediction.mood_score)

\* C15 amended: the recommendation is the tier of the adjusted score before
\* it is rounded to one decimal; it is the tier of the returned mood_score
\* whenever no pattern matched.
C15_TierOfUnroundedScore ==
    prediction.status = "ok" =>
        /\ prediction.recommendation = C15_TierOf(prediction.unrounded)
        /\ (weather_data.given /\ C14_Matches = {}) =>
              prediction.recommendation = C15_TierOfTenths(prediction.mood_score)
        /\ ~weather_data.given =>
              prediction.recommendation = C15_TierOfTenths(prediction.mood_score)

\* base 7.0 with a matching average of 4.9: 6.97 is returned as 7.0 with the
\* recommendation of the tier below 7
C15_Witness ==
    /\ Predicted
    /\ prediction.unrounded = <<697, 100>>
    /\ prediction.mood_score = 70
    /\ prediction.recommendation = "Good weather conditions."

\* C19 as stated: the mood_score get_weather_mood_prediction returns lies in
\* [0, 10] for every observation and pattern list, the personal pattern
\* adjustment included.
C19_PredictionInRange ==
    prediction.status = "ok" =>
        prediction.mood_score >= 0 /\ prediction.mood_score <= 100

\* the calls made for one user, one pair of ranges and one spelling of the
\* condition label
C16_CallsLike(c) ==
    SelectSeq(calls, LAMBDA d :
        /\ d.user_id = c.user_id
        /\ d.key.temperature_range = c.key.temperature_range
        /\ d.key.humidity_range = c.key.humidity_range
        /\ d.condition = c.condition)

C16_RowsOf(c) ==
    {r \in 1..Len(patterns) :
        /\ patterns[r].user_id = c.user_id
        /\ patterns[r].temperature_range = c.key.temperature_range
        /\ patterns[r].humidity_range = c.key.humidity_range
        /\ {patterns[r].weather_condition} = c.condition}

\* C16: the aggregator's bucket key takes the condition label as given, case
\* included: calls for one user and one temperature and humidity bucket
\* whose labels differ only in case ("Rain", "rain") are kept in separate
\* rows, each with the count and the average of its own calls.
C16_CaseSensitiveKey ==
    \A i \in 1..Len(calls) :
        /\ Cardinality(C16_RowsOf(calls[i])) = 1
        /\ \A r \in C16_RowsOf(calls[i]) :
              HoldsMeanOf(patterns[r], C16_CallsLike(calls[i]))
        /\ \A j \in 1..Len(calls) :
              calls[i].condition # calls[j].condition =>
                  C16_RowsOf(calls[i]) \cap C16_RowsOf(calls[j]) = {}

C16_Witness ==
    /\ Len(patterns) = 2
    /\ patterns[1].weather_condition = "Rain"
    /\ patterns[1].sample_count = 2
    /\ patterns[1].avg_mood_impact = <<5, 1>>
    /\ patterns[2].weather_condition = "rain"
    /\ patterns[2].sample_count = 1
    /\ patterns[2].avg_mood_impact = <<4, 1>>
    /\ KeyOfRow(patterns[1]) = [KeyOfRow(patterns[2]) EXCEPT !.weather_condition = "Rain"]

C20_AverageWithinImpacts ==
    \A r \in 1..Len(patterns) :
        LET cs == RoutedTo(KeyOfRow(patterns[r]))
            avg == patterns[r].avg_mood_impact
        IN  /\ cs # <<>>
            /\ \E i \in 1..Len(cs) : cs[i].mood_impact * avg[2] <= avg[1]
            /\ \E i \in 1..Len(cs) : avg[1] <= cs[i].mood_impact * avg[2]
            /\ \A i \in 1..Len(cs) : cs[i].mood_impact \in 1..5
            /\ avg[2] <= avg[1]
            /\ avg[1] <= 5 * avg[2]

\* moods 1 and 5 on two rainy days: one pattern with average 3
C20_Witness ==
    \E r \in 1..Len(patterns) :
        /\ ImpactsOf(RoutedTo(KeyOfRow(patterns[r]))) = <<1, 5>>
        /\ patterns[r].sample_count = 2
        /\ patterns[r].avg_mood_impact = <<3, 1>>
        /\ today = 2

\* the file is the header followed by one record per saved entry, in order
C18_FileKeepsEverySave ==
    /\ data_file = {} => csv_saved = <<>>
    /\ data_file # {} =>
          /\ Len(Val(data_file)) = Len(csv_saved) + 1
          /\ Val(data_file)[1] = HEADERS
          /\ \A i \in 1..Len(csv_saved) :
                \A k \in 1..Len(HEADERS) :
                    Val(data_file)[i + 1][k] = Str(csv_saved[i][HEADERS[k]])

C18_TextOnly(log_entry) ==
    \A k \in 1..Len(HEADERS) : log_entry[HEADERS[k]][1] = "str"

C21_Written ==
    {i \in 1..Len(patterns') : i > Len(patterns) \/ patterns'[i] # patterns[i]}

\* the row belongs to the bucket the call was made for
C21_RowOfCall(row, c) ==
    /\ row.user_id = c.user_id
    /\ row.temperature_range = c.key.temperature_range
    /\ row.humidity_range = c.key.humidity_range
    /\ {row.weather_condition} = c.condition

\* C21: an update_weather_pattern call changes at most the one pattern row
\* of its own key: the pattern rows of other users and of other (temperature
\* range, humidity range, condition) keys and all daily log entries stay as
\* they are, and a call that returns False leaves the whole pattern table
\* unchanged.  (The table changes at no other moment of a call either.)
C21_FrameEffect ==
    [][/\ calls' # calls =>
             LET c == calls'[Len(calls')]
             IN  /\ daily_logs' = daily_logs
                 /\ Len(patterns') >= Len(patterns)
                 /\ Cardinality(C21_Written) <= 1
                 /\ \A i \in C21_Written :
                       /\ C21_RowOfCall(patterns'[i], c)
                       /\ i <= Len(patterns) =>
                             KeyOfRow(patterns'[i]) = KeyOfRow(patterns[i])
                 /\ ~c.ok => patterns' = patterns
       /\ calls' = calls => patterns' = patterns]_vars

\* three calls have returned, one of them False; the table holds a row of
\* user 2 and a row of user 1, and both users have a daily log entry
C21_Witness ==
    /\ Len(calls) = 3
    /\ \E i \in 1..3 : ~calls[i].ok
    /\ Len(patterns) = 2
    /\ patterns[1].user_id = 2
    /\ patterns[2].user_id = 1
    /\ patterns[1].avg_mood_impact = <<8, 1>>
    /\ Len(daily_logs) = 2

=============================================================================
